---------------------------- MODULE Spec2Model ----------------------------
(* A model of advanced_python.py: discovery of "game" directories, name     *)
(* derivation, copy to the target, build step and metadata.json.            *)
(*                                                                          *)
(* A string is a sequence of one-character strings, a path a sequence of    *)
(* path components, and the filesystem a function from the paths that exist *)
(* to their nodes (kind "dir" or "file", and a file's contents).            *)
EXTENDS Integers, Sequences, FiniteSets, TLC

\* -------------------------------------------------------------- bounds
\* The largest number of children of the source directory.
MaxChildren == 3
\* The longest list of paths handed to get_name_from_paths on its own.
MaxPaths == 3

\* ------------------------------------------------------ program constants
GAME_DIR_PATTERN == <<"g", "a", "m", "e">>
GAME_CODE_EXTENSION == <<".", "g", "o">>
GAME_COMPILE_COMMAND == << <<"g", "o">>, <<"b", "u", "i", "l", "d">> >>
\* The to_strip argument main passes to get_name_from_paths.
TO_STRIP == <<"_", "g", "a", "m", "e">>
METADATA_JSON == <<"m", "e", "t", "a", "d", "a", "t", "a", ".", "j", "s", "o", "n">>
\* len(sys.argv) of a well-formed invocation: the script name and two arguments.
ExpectedArgs == 3

\* --------------------------------------------------------------- strings
\* str.lower() on one character.
LowerChar(c) ==
    CASE c = "A" -> "a" [] c = "B" -> "b" [] c = "C" -> "c" [] c = "D" -> "d"
      [] c = "E" -> "e" [] c = "F" -> "f" [] c = "G" -> "g" [] c = "H" -> "h"
      [] c = "I" -> "i" [] c = "J" -> "j" [] c = "K" -> "k" [] c = "L" -> "l"
      [] c = "M" -> "m" [] c = "N" -> "n" [] c = "O" -> "o" [] c = "P" -> "p"
      [] c = "Q" -> "q" [] c = "R" -> "r" [] c = "S" -> "s" [] c = "T" -> "t"
      [] c = "U" -> "u" [] c = "V" -> "v" [] c = "W" -> "w" [] c = "X" -> "x"
      [] c = "Y" -> "y" [] c = "Z" -> "z" [] OTHER -> c

\* directory.lower()
str_lower(s) == [k \in 1..Len(s) |-> LowerChar(s[k])]

\* s.startswith(pre)
str_startswith(s, pre) ==
    Len(pre) <= Len(s) /\ SubSeq(s, 1, Len(pre)) = pre

\* file.endswith(suf)
str_endswith(s, suf) ==
    Len(suf) <= Len(s) /\ SubSeq(s, Len(s) - Len(suf) + 1, Len(s)) = suf

\* sub in s
str_in(sub, s) ==
    \E k \in 1..(Len(s) + 1) : str_startswith(SubSeq(s, k, Len(s)), sub)

\* s.strip(chars): drops leading and trailing characters that occur in chars.
\* Not what the program calls: str_strip is what s.strip(old) would give.
RECURSIVE str_lstrip(_, _)
str_lstrip(s, chars) ==
    IF s # <<>> /\ (\E k \in 1..Len(chars) : chars[k] = Head(s))
    THEN str_lstrip(Tail(s), chars)
    ELSE s

RECURSIVE str_rstrip(_, _)
str_rstrip(s, chars) ==
    IF s # <<>> /\ (\E k \in 1..Len(chars) : chars[k] = s[Len(s)])
    THEN str_rstrip(SubSeq(s, 1, Len(s) - 1), chars)
    ELSE s

str_strip(s, old) == str_rstrip(str_lstrip(s, old), old)

\* s.replace(old, "") for a non-empty old: every occurrence, scanning from the
\* left, without overlap.
RECURSIVE str_replace(_, _)
str_replace(s, old) ==
    IF Len(s) < Len(old) THEN s
    ELSE IF str_startswith(s, old)
         THEN str_replace(SubSeq(s, Len(old) + 1, Len(s)), old)
         ELSE <<Head(s)>> \o str_replace(Tail(s), old)

\* ----------------------------------------------------------------- paths
\* os.path.join(path, name): joining the empty name gives path with a trailing
\* separator, which names path itself.
os_path_join(path, name) == IF name = <<>> THEN path ELSE Append(path, name)

\* The second element of os.path.split(path): the final component.
os_path_split_tail(path) == IF path = <<>> THEN <<>> ELSE path[Len(path)]

IsPrefix(p, q) == Len(p) <= Len(q) /\ SubSeq(q, 1, Len(p)) = p

ProperPrefixes(p) == {SubSeq(p, 1, k) : k \in 0..(Len(p) - 1)}

Suffix(q, n) == SubSeq(q, n + 1, Len(q))

\* ------------------------------------------------------------ filesystem
DirNode == [kind |-> "dir", data |-> "-"]
FileNode(d) == [kind |-> "file", data |-> d]

os_path_exists(f, p) == p \in DOMAIN f
os_path_isdir(f, p) == p \in DOMAIN f /\ f[p].kind = "dir"

\* The names of the entries of directory p.
ChildNames(f, p) ==
    {q[Len(q)] : q \in {r \in DOMAIN f : Len(r) = Len(p) + 1 /\ IsPrefix(p, r)}}

\* The orders in which a listing may yield the names in S.
Listings(S) ==
    {L \in [1..Cardinality(S) -> S] : \A a, b \in 1..Cardinality(S) : L[a] = L[b] => a = b}

\* The tree under p, by paths relative to p.
Subtree(f, p) ==
    [r \in {Suffix(q, Len(p)) : q \in {x \in DOMAIN f : IsPrefix(p, x)}} |-> f[p \o r]]

NoExc == [type |-> "none", where |-> "none"]
Exc(t, w) == [type |-> t, where |-> w]

\* shutil.rmtree(p): removes the directory p and everything under it; a path
\* that is not a directory raises and nothing is removed.
shutil_rmtree(f, p) ==
    IF ~os_path_exists(f, p)
    THEN [fs |-> f, exc |-> Exc("FileNotFoundError", "rmtree")]
    ELSE IF f[p].kind # "dir"
    THEN [fs |-> f, exc |-> Exc("NotADirectoryError", "rmtree")]
    ELSE [fs |-> [q \in {x \in DOMAIN f : ~IsPrefix(p, x)} |-> f[q]], exc |-> NoExc]

\* shutil.copytree(s, d): lists s, creates d with os.makedirs (missing parents
\* are created, an existing d raises), then copies the tree under s.
shutil_copytree(f, s, d) ==
    IF ~os_path_isdir(f, s)
    THEN [fs |-> f, exc |-> Exc("FileNotFoundError", "copytree")]
    ELSE IF os_path_exists(f, d)
    THEN [fs |-> f, exc |-> Exc("FileExistsError", "copytree")]
    ELSE IF \E a \in ProperPrefixes(d) : os_path_exists(f, a) /\ ~os_path_isdir(f, a)
    THEN [fs |-> f, exc |-> Exc("NotADirectoryError", "copytree")]
    ELSE LET copied == {d \o Suffix(q, Len(s)) : q \in {x \in DOMAIN f : IsPrefix(s, x)}}
             dom == DOMAIN f \cup ProperPrefixes(d) \cup copied
         IN [fs |-> [q \in dom |->
                        IF IsPrefix(d, q) THEN f[s \o Suffix(q, Len(d))]
                        ELSE IF q \in DOMAIN f THEN f[q]
                        ELSE DirNode],
             exc |-> NoExc]

\* copy_and_overwrite with the removal left out and the copy merging into an
\* existing destination (copytree(..., dirs_exist_ok=True)).
copy_and_overwrite_merge(f, source, dest) ==
    IF ~os_path_isdir(f, source)
    THEN [fs |-> f, exc |-> Exc("FileNotFoundError", "copytree")]
    ELSE IF \E a \in ProperPrefixes(dest) \cup {dest} :
                os_path_exists(f, a) /\ ~os_path_isdir(f, a)
    THEN [fs |-> f, exc |-> Exc("NotADirectoryError", "copytree")]
    ELSE LET copied == {dest \o Suffix(q, Len(source)) :
                            q \in {x \in DOMAIN f : IsPrefix(source, x)}}
             dom == DOMAIN f \cup ProperPrefixes(dest) \cup copied
         IN [fs |-> [q \in dom |->
                        IF q \in copied THEN f[source \o Suffix(q, Len(dest))]
                        ELSE IF q \in DOMAIN f THEN f[q]
                        ELSE DirNode],
             exc |-> NoExc]

\* copy_and_overwrite(source, dest)
copy_and_overwrite(f, source, dest) ==
    LET removed == IF os_path_exists(f, dest)
                   THEN shutil_rmtree(f, dest)
                   ELSE [fs |-> f, exc |-> NoExc]
    IN IF removed.exc # NoExc THEN removed
       ELSE shutil_copytree(removed.fs, source, dest)

\* create_dir(path): os.mkdir unless the path exists.
create_dir(f, path) ==
    IF os_path_exists(f, path) THEN [fs |-> f, exc |-> NoExc]
    ELSE IF \E a \in ProperPrefixes(path) : ~os_path_isdir(f, a)
    THEN [fs |-> f, exc |-> Exc("FileNotFoundError", "mkdir")]
    ELSE [fs |-> (path :> DirNode) @@ f, exc |-> NoExc]

\* The first step of os.walk(path) with the listing L of path: no step at all
\* when path is not a directory, else (root, dirs, files).
os_walk_top(f, path, L) ==
    IF ~os_path_isdir(f, path) THEN <<>>
    ELSE LET IsDir(n) == os_path_isdir(f, Append(path, n))
             IsFile(n) == ~os_path_isdir(f, Append(path, n))
         IN << [root |-> path, dirs |-> SelectSeq(L, IsDir), files |-> SelectSeq(L, IsFile)] >>

\* find_all_game_paths with the pattern compared against the name as it is.
find_all_game_paths_nolower(f, source, L) ==
    LET walk == os_walk_top(f, source, L)
        Matches(d) == str_in(GAME_DIR_PATTERN, d)
    IN IF walk = <<>> THEN <<>>
       ELSE LET found == SelectSeq(walk[1].dirs, Matches)
            IN [k \in 1..Len(found) |-> os_path_join(source, found[k])]

\* find_all_game_paths(source), the listing of source being L.
find_all_game_paths(f, source, L) ==
    LET walk == os_walk_top(f, source, L)
        Matches(d) == str_in(GAME_DIR_PATTERN, str_lower(d))
    IN IF walk = <<>> THEN <<>>
       ELSE LET found == SelectSeq(walk[1].dirs, Matches)
            IN [k \in 1..Len(found) |-> os_path_join(source, found[k])]

\* get_name_from_paths(paths, to_strip)
get_name_from_paths(paths, to_strip) ==
    [k \in 1..Len(paths) |-> str_replace(os_path_split_tail(paths[k]), to_strip)]

\* The search of compile_game_code: the first file of the first level, in
\* listing order, that ends with the extension; <<>> stands for None.
find_code_file(f, path, L) ==
    LET walk == os_walk_top(f, path, L)
        IsCode(n) == str_endswith(n, GAME_CODE_EXTENSION)
    IN IF walk = <<>> THEN <<>>
       ELSE LET code == SelectSeq(walk[1].files, IsCode)
            IN IF code = <<>> THEN <<>> ELSE <<code[1]>>

\* The data of make_json_metadata_file with the count taken of the distinct names.
metadata_data_distinct(game_dirs) ==
    [gameNames |-> game_dirs,
     numberOfGames |-> Cardinality({game_dirs[k] : k \in 1..Len(game_dirs)})]

\* The data of make_json_metadata_file.
metadata_data(game_dirs) ==
    [gameNames |-> game_dirs, numberOfGames |-> Len(game_dirs)]

\* open(path, "w") and the dump: the file is created or truncated.
open_write(f, path) ==
    IF os_path_isdir(f, path)
    THEN [fs |-> f, exc |-> Exc("IsADirectoryError", "open")]
    ELSE IF \E a \in ProperPrefixes(path) : ~os_path_exists(f, a)
    THEN [fs |-> f, exc |-> Exc("FileNotFoundError", "open")]
    ELSE IF \E a \in ProperPrefixes(path) : ~os_path_isdir(f, a)
    THEN [fs |-> f, exc |-> Exc("NotADirectoryError", "open")]
    ELSE [fs |-> (path :> FileNode("json")) @@ f, exc |-> NoExc]

\* ------------------------------------------------- the files of the runs
SRC == <<"s", "r", "c">>
OUT == <<"o", "u", "t">>
\* os.getcwd() when the script starts: the root of the modelled tree.
CWD0 == <<>>

n_x_game == <<"x", "_", "g", "a", "m", "e">>
n_GAME2 == <<"G", "A", "M", "E", "2">>
n_noise == <<"n", "o", "i", "s", "e">>
n_a_game == <<"a", "_", "g", "a", "m", "e">>
n_a_game_game == <<"a", "_", "g", "a", "m", "e", "_", "g", "a", "m", "e">>
n__game == <<"_", "g", "a", "m", "e">>
n_game_txt == <<"g", "a", "m", "e", ".", "t", "x", "t">>
n_foo_game == <<"f", "o", "o", "_", "g", "a", "m", "e">>
n_game_game == <<"g", "a", "m", "e", "_", "g", "a", "m", "e">>
n_nomatch == <<"n", "o", "m", "a", "t", "c", "h">>
n_sub_game == <<"s", "u", "b", "_", "g", "a", "m", "e">>
n_main_go == <<"m", "a", "i", "n", ".", "g", "o">>
n_readme == <<"r", "e", "a", "d", "m", "e">>
n_old == <<"o", "l", "d">>
n_foo == <<"f", "o", "o">>
n_game == <<"g", "a", "m", "e">>
n_a == <<"a">>
n_x == <<"x">>

\* The entries a source directory is drawn from, each with the tree under it.
SourcePool ==
    {n_x_game, n_GAME2, n_noise, n_a_game, n_a_game_game, n__game, n_game_txt}

PoolTree(n) ==
    CASE n = n_x_game ->
            (<<>> :> DirNode) @@ (<<n_main_go>> :> FileNode("x_main"))
                @@ (<<n_sub_game>> :> DirNode)
      [] n = n_GAME2 -> (<<>> :> DirNode) @@ (<<n_readme>> :> FileNode("readme2"))
      [] n = n_noise -> (<<>> :> DirNode)
      [] n = n_a_game -> (<<>> :> DirNode) @@ (<<n_main_go>> :> FileNode("a1"))
      [] n = n_a_game_game -> (<<>> :> DirNode) @@ (<<n_main_go>> :> FileNode("a2"))
      [] n = n__game -> (<<>> :> DirNode) @@ (<<n_readme>> :> FileNode("u"))
      [] OTHER -> (<<>> :> FileNode("txt"))

\* The states the target is drawn from before the run.
TargetStates == {"absent", "empty", "stale", "file", "a_is_file"}

TargetEntries(t) ==
    CASE t = "absent" -> {}
      [] t = "empty" -> {[path |-> <<OUT>>, node |-> DirNode]}
      [] t = "stale" ->
            {[path |-> <<OUT>>, node |-> DirNode],
             [path |-> <<OUT, n_a>>, node |-> DirNode],
             [path |-> <<OUT, n_a, n_old>>, node |-> FileNode("old")],
             [path |-> <<OUT, METADATA_JSON>>, node |-> FileNode("oldjson")]}
      [] t = "file" -> {[path |-> <<OUT>>, node |-> FileNode("notadir")]}
      [] OTHER ->
            {[path |-> <<OUT>>, node |-> DirNode],
             [path |-> <<OUT, n_a>>, node |-> FileNode("plain")]}

SourceEntries(present, S) ==
    IF ~present THEN {}
    ELSE {[path |-> <<SRC>>, node |-> DirNode]} \cup
         UNION {{[path |-> <<SRC, n>> \o r, node |-> PoolTree(n)[r]] :
                    r \in DOMAIN PoolTree(n)} : n \in S}

FsOf(E) ==
    [q \in {e.path : e \in E} |-> (CHOOSE e \in E : e.path = q).node]

\* The filesystem before the run: the root, the source directory with the
\* children S (or no source directory), and the target in state t.
InitialFs(present, S, t) ==
    FsOf({[path |-> <<>>, node |-> DirNode]} \cup SourceEntries(present, S)
            \cup TargetEntries(t))

InitialFilesystems ==
    {InitialFs(TRUE, S, t) :
        S \in {X \in SUBSET SourcePool : Cardinality(X) <= MaxChildren},
        t \in TargetStates}
    \cup {InitialFs(FALSE, {}, t) : t \in TargetStates}

\* What the external command can do: run to exit status 0, run to a non-zero
\* exit status (compile errors among them), or not start for want of the tool.
Outcomes == {"exit_zero", "exit_nonzero", "compile_error", "tool_missing"}
BuildFailures == {"exit_nonzero", "compile_error", "tool_missing"}

NoDoc == [gameNames |-> <<>>, numberOfGames |-> -1]

Ev(e, k) == [e |-> e, i |-> k]

VARIABLES
    argc,           \* len(sys.argv)
    fs,             \* the filesystem
    fs0,            \* the filesystem before the run
    cwd,            \* the working directory of the process
    pc,             \* where the run is
    exc,            \* the exception that ended the run, or NoExc
    listing,        \* what the listing of the source directory yielded
    game_paths,     \* main: game_paths
    new_game_dirs,  \* main: new_game_dirs
    i,              \* the position of the loop of main in the zip
    src,            \* the source argument of copy_and_overwrite
    dest_path,      \* main: dest_path, the argument of both calls of the loop
    saved_cwd,      \* run_command: cwd
    command,        \* run_command: command
    outcome,        \* how the last external command ended
    json_doc,       \* the document in metadata.json as main wrote it
    events          \* what the run has completed so far, in order

vars == <<argc, fs, fs0, cwd, pc, exc, listing, game_paths, new_game_dirs, i,
          src, dest_path, saved_cwd, command, outcome, json_doc, events>>

source_path == os_path_join(CWD0, SRC)
target_path == os_path_join(CWD0, OUT)

Init ==
    /\ argc \in {ExpectedArgs - 1, ExpectedArgs, ExpectedArgs + 1}
    /\ fs \in InitialFilesystems
    /\ fs0 = fs
    /\ cwd = CWD0
    /\ pc = "start"
    /\ exc = NoExc
    /\ listing = <<>>
    /\ game_paths = <<>>
    /\ new_game_dirs = <<>>
    /\ i = 1
    /\ src = <<>>
    /\ dest_path = <<>>
    /\ saved_cwd = CWD0
    /\ command = <<>>
    /\ outcome = "none"
    /\ json_doc = NoDoc
    /\ events = <<>>

\* ------------------------------------------------------------- the run
Raise(e) ==
    /\ pc' = "raised"
    /\ exc' = e

\* The entry of the script with the count of the arguments not checked.
Entry_unchecked ==
    /\ pc = "start"
    /\ pc' = "discover"
    /\ UNCHANGED <<argc, fs, fs0, cwd, exc, listing, game_paths, new_game_dirs, i,
                   src, dest_path, saved_cwd, command, outcome, json_doc, events>>

\* The entry of the script: the usage error, or the call of main, which
\* resolves both arguments against the working directory.
Entry ==
    /\ pc = "start"
    /\ IF argc # ExpectedArgs
       THEN Raise(Exc("Exception", "__main__"))
       ELSE pc' = "discover" /\ exc' = exc
    /\ UNCHANGED <<argc, fs, fs0, cwd, listing, game_paths, new_game_dirs, i,
                   src, dest_path, saved_cwd, command, outcome, json_doc, events>>

\* main: game_paths = find_all_game_paths(source_path)
Discover ==
    /\ pc = "discover"
    /\ \E L \in Listings(ChildNames(fs, source_path)) :
          /\ listing' = L
          /\ game_paths' = find_all_game_paths(fs, source_path, L)
    /\ pc' = "names"
    /\ UNCHANGED <<argc, fs, fs0, cwd, exc, new_game_dirs, i, src, dest_path,
                   saved_cwd, command, outcome, json_doc, events>>

\* main: new_game_dirs = get_name_from_paths(game_paths, "_game")
DeriveNames ==
    /\ pc = "names"
    /\ new_game_dirs' = get_name_from_paths(game_paths, TO_STRIP)
    /\ pc' = "create_dir"
    /\ UNCHANGED <<argc, fs, fs0, cwd, exc, listing, game_paths, i, src, dest_path,
                   saved_cwd, command, outcome, json_doc, events>>

\* main: create_dir(target_path)
CreateDir ==
    /\ pc = "create_dir"
    /\ LET r == create_dir(fs, target_path)
       IN /\ fs' = r.fs
          /\ IF r.exc # NoExc
             THEN Raise(r.exc) /\ events' = events
             ELSE /\ pc' = "loop"
                  /\ exc' = exc
                  /\ events' = Append(events, Ev("target_ensured", 0))
    /\ UNCHANGED <<argc, fs0, cwd, listing, game_paths, new_game_dirs, i, src,
                   dest_path, saved_cwd, command, outcome, json_doc>>

\* The length of zip(game_paths, new_game_dirs).
ZipLen ==
    IF Len(game_paths) <= Len(new_game_dirs) THEN Len(game_paths) ELSE Len(new_game_dirs)

\* The loop of main, first half: dest_path and copy_and_overwrite(src, dest_path).
CopyItem ==
    /\ pc = "loop"
    /\ i <= ZipLen
    /\ src' = game_paths[i]
    /\ dest_path' = os_path_join(target_path, new_game_dirs[i])
    /\ outcome' = "none"
    /\ LET r == copy_and_overwrite(fs, src', dest_path')
       IN /\ fs' = r.fs
          /\ IF r.exc # NoExc
             THEN Raise(r.exc) /\ events' = events
             ELSE /\ pc' = "build"
                  /\ exc' = exc
                  /\ events' = Append(events, Ev("copied", i))
    /\ UNCHANGED <<argc, fs0, cwd, listing, game_paths, new_game_dirs, i,
                   saved_cwd, command, json_doc>>

\* compile_game_code(dest_path) up to the start of the external command: the
\* search for the code file and, when there is one, run_command's getcwd and
\* chdir. Without a code file the call returns at once.
BuildStart ==
    /\ pc = "build"
    /\ \E L \in Listings(ChildNames(fs, dest_path)) :
          LET code == find_code_file(fs, dest_path, L)
          IN IF code = <<>>
             THEN /\ pc' = "loop"
                  /\ i' = i + 1
                  /\ events' = events \o <<Ev("build_started", i), Ev("build_ended", i)>>
                  /\ UNCHANGED <<cwd, saved_cwd, command, exc>>
             ELSE /\ command' = GAME_COMPILE_COMMAND \o code
                  /\ saved_cwd' = cwd
                  /\ IF os_path_isdir(fs, dest_path)
                     THEN /\ cwd' = dest_path
                          /\ pc' = "running"
                          /\ exc' = exc
                          /\ events' = Append(events, Ev("build_started", i))
                     ELSE /\ cwd' = cwd
                          /\ Raise(Exc("FileNotFoundError", "chdir"))
                          /\ events' = events
                  /\ i' = i
    /\ UNCHANGED <<argc, fs, fs0, listing, game_paths, new_game_dirs, src, dest_path,
                   outcome, json_doc>>

\* What a successful build leaves in the directory: the executable, named
\* after the code file.
BuildArtifact(f, dir, code) ==
    LET exe == Append(dir, SubSeq(code, 1, Len(code) - Len(GAME_CODE_EXTENSION)))
    IN IF os_path_isdir(f, exe) THEN f ELSE (exe :> FileNode("binary")) @@ f

\* run_command from the call of run on: the command's outcome, then the
\* chdir back. A command that cannot be started makes run raise, and the
\* chdir back is not reached.
BuildEnd ==
    /\ pc = "running"
    /\ \E o \in Outcomes :
          /\ outcome' = o
          /\ IF o = "tool_missing"
             THEN /\ Raise(Exc("FileNotFoundError", "run"))
                  /\ UNCHANGED <<fs, cwd, i, events>>
             ELSE /\ fs' = IF o = "exit_zero"
                           THEN BuildArtifact(fs, cwd, command[Len(command)])
                           ELSE fs
                  /\ cwd' = saved_cwd
                  /\ i' = i + 1
                  /\ pc' = "loop"
                  /\ exc' = exc
                  /\ events' = Append(events, Ev("build_ended", i))
    /\ UNCHANGED <<argc, fs0, listing, game_paths, new_game_dirs, src, dest_path,
                   saved_cwd, command, json_doc>>

\* The metadata file written one pass of the loop too soon.
WriteMetadata_early ==
    /\ pc = "loop"
    /\ i >= ZipLen
    /\ LET r == open_write(fs, os_path_join(target_path, METADATA_JSON))
       IN /\ fs' = r.fs
          /\ IF r.exc # NoExc
             THEN Raise(r.exc) /\ UNCHANGED <<json_doc, events>>
             ELSE /\ pc' = "done"
                  /\ exc' = exc
                  /\ json_doc' = metadata_data(new_game_dirs)
                  /\ events' = Append(events, Ev("metadata", 0))
    /\ UNCHANGED <<argc, fs0, cwd, listing, game_paths, new_game_dirs, i, src,
                   dest_path, saved_cwd, command, outcome>>

\* main after the loop: json_path and make_json_metadata_file(json_path, new_game_dirs).
WriteMetadata ==
    /\ pc = "loop"
    /\ i > ZipLen
    /\ LET r == open_write(fs, os_path_join(target_path, METADATA_JSON))
       IN /\ fs' = r.fs
          /\ IF r.exc # NoExc
             THEN Raise(r.exc) /\ UNCHANGED <<json_doc, events>>
             ELSE /\ pc' = "done"
                  /\ exc' = exc
                  /\ json_doc' = metadata_data(new_game_dirs)
                  /\ events' = Append(events, Ev("metadata", 0))
    /\ UNCHANGED <<argc, fs0, cwd, listing, game_paths, new_game_dirs, i, src,
                   dest_path, saved_cwd, command, outcome>>

Next ==
    \/ Entry
    \/ Discover
    \/ DeriveNames
    \/ CreateDir
    \/ CopyItem
    \/ BuildStart
    \/ BuildEnd
    \/ WriteMetadata

Spec == Init /\ [][Next]_vars

\* ------------------------------------- copy_and_overwrite called on its own
\* The destinations of the calls: the target itself and two entries of it.
CopyDests == {<<OUT>>, <<OUT, n_a>>, <<OUT, n_x>>}

InitCopy ==
    /\ argc = ExpectedArgs
    /\ fs \in InitialFilesystems
    /\ fs0 = fs
    /\ cwd = CWD0
    /\ pc = "copy_call1"
    /\ exc = NoExc
    /\ listing = <<>>
    /\ game_paths = <<>>
    /\ new_game_dirs = <<>>
    /\ i = 1
    /\ src \in {<<SRC, n>> : n \in SourcePool}
    /\ dest_path \in CopyDests
    /\ saved_cwd = CWD0
    /\ command = <<>>
    /\ outcome = "none"
    /\ json_doc = NoDoc
    /\ events = <<>>

\* copy_and_overwrite(src, dest_path), called once and then once more; i counts
\* the calls.
CallCopyAndOverwrite ==
    /\ pc \in {"copy_call1", "copy_call2"}
    /\ i' = i + 1
    /\ LET r == copy_and_overwrite(fs, src, dest_path)
       IN /\ fs' = r.fs
          /\ IF r.exc # NoExc
             THEN Raise(r.exc)
             ELSE /\ pc' = IF pc = "copy_call1" THEN "copy_call2" ELSE "copy_returned"
                  /\ exc' = exc
    /\ UNCHANGED <<argc, fs0, cwd, listing, game_paths, new_game_dirs, src,
                   dest_path, saved_cwd, command, outcome, json_doc, events>>

NextCopy == CallCopyAndOverwrite

SpecCopy == InitCopy /\ [][NextCopy]_vars

\* ------------------------------------ get_name_from_paths called on its own
NamePool ==
    {n_foo_game, n_game_game, n_nomatch, n_a_game_game, n__game, n_GAME2, n_x_game}

RECURSIVE SeqsUpTo(_, _)
SeqsUpTo(S, n) ==
    IF n = 0 THEN {<<>>}
    ELSE LET shorter == SeqsUpTo(S, n - 1)
         IN shorter \cup {Append(s, x) : s \in shorter, x \in S}

InitNames ==
    /\ argc = ExpectedArgs
    /\ fs = InitialFs(TRUE, {}, "absent")
    /\ fs0 = fs
    /\ cwd = CWD0
    /\ pc = "names_call"
    /\ exc = NoExc
    /\ listing = <<>>
    /\ game_paths \in SeqsUpTo({os_path_join(source_path, n) : n \in NamePool}, MaxPaths)
    /\ new_game_dirs = <<>>
    /\ i = 1
    /\ src = <<>>
    /\ dest_path = <<>>
    /\ saved_cwd = CWD0
    /\ command = <<>>
    /\ outcome = "none"
    /\ json_doc = NoDoc
    /\ events = <<>>

\* get_name_from_paths(game_paths, "_game")
CallGetNameFromPaths ==
    /\ pc = "names_call"
    /\ new_game_dirs' = get_name_from_paths(game_paths, TO_STRIP)
    /\ pc' = "names_returned"
    /\ UNCHANGED <<argc, fs, fs0, cwd, exc, listing, game_paths, i, src, dest_path,
                   saved_cwd, command, outcome, json_doc, events>>

NextNames == CallGetNameFromPaths

SpecNames == InitNames /\ [][NextNames]_vars

\* ---------------------------------------------------------------- claims
\* C1: a build step that fails (non-zero exit, compile errors, missing build
\* tool) never ends main abnormally: no run is ended by an exception of the
\* external command.
C1_BuildFailuresIgnored ==
    outcome \in BuildFailures => ~(pc = "raised" /\ exc.where = "run")

\* C2: once compile_game_code has returned or failed, the working directory is
\* the one before the call; it differs only while the external command runs.
C2_CwdRestored ==
    pc # "running" => cwd = CWD0

\* C3: copy_and_overwrite(source, dest) with source an existing directory and
\* dest existing in any form ends without an error with dest a copy of source.
C3_ExistingDestReplaced ==
    (pc # "copy_call1" /\ os_path_isdir(fs0, src) /\ os_path_exists(fs0, dest_path))
        => (pc # "raised" /\ Subtree(fs, dest_path) = Subtree(fs0, src))

\* C4: in a run that completes, the document written has numberOfGames equal
\* to the length of gameNames and to the number of discovered directories, and
\* gameNames holds the derived names in discovery order.
C4_MetadataCount ==
    pc = "done" =>
        /\ json_doc.numberOfGames = Len(json_doc.gameNames)
        /\ json_doc.numberOfGames = Len(game_paths)
        /\ \A k \in 1..Len(game_paths) :
              json_doc.gameNames[k] = str_replace(game_paths[k][Len(game_paths[k])], TO_STRIP)

C4_Witness ==
    pc = "done" /\ Len(game_paths) = 2 /\ json_doc.gameNames = <<n_a, n_a>>

\* C5 as stated: "foo_game" gives "foo", "game_game" gives the empty string
\* and "nomatch" stays "nomatch".
C5_AsStated ==
    pc = "names_returned" =>
        \A k \in 1..Len(game_paths) :
            LET name == game_paths[k][Len(game_paths[k])]
            IN /\ name = n_foo_game => new_game_dirs[k] = n_foo
               /\ name = n_game_game => new_game_dirs[k] = <<>>
               /\ name = n_nomatch => new_game_dirs[k] = n_nomatch

\* C5, amended: "foo_game" gives "foo", "game_game" gives "game" (its one
\* occurrence of "_game" removed) and "nomatch" stays "nomatch"; the result has
\* one name per path.
C5_NameDerivation ==
    pc = "names_returned" =>
        /\ Len(new_game_dirs) = Len(game_paths)
        /\ \A k \in 1..Len(game_paths) :
              LET name == game_paths[k][Len(game_paths[k])]
              IN /\ name = n_foo_game => new_game_dirs[k] = n_foo
                 /\ name = n_game_game => new_game_dirs[k] = n_game
                 /\ name = n_nomatch => new_game_dirs[k] = n_nomatch

C5_Witness ==
    /\ pc = "names_returned"
    /\ game_paths = <<os_path_join(source_path, n_foo_game),
                      os_path_join(source_path, n_game_game),
                      os_path_join(source_path, n_nomatch)>>

\* Whether the name n of an entry of the source directory is that of a
\* directory whose lower-cased name contains "game".
IsGameDir(n) ==
    /\ os_path_isdir(fs0, <<SRC, n>>)
    /\ \E k \in 1..Len(n) :
          k + 3 <= Len(n) /\ <<LowerChar(n[k]), LowerChar(n[k + 1]),
                               LowerChar(n[k + 2]), LowerChar(n[k + 3])>> = <<"g", "a", "m", "e">>

\* C6: discovery returns exactly the immediate child directories of the source
\* whose lower-cased name contains "game", each once and in listing order
\* (of x_game, GAME2 and noise the first two); no file and no deeper directory
\* is returned, and a source that does not exist gives the empty list.
C6_Discovery ==
    pc \notin {"start", "discover"} /\ argc = ExpectedArgs =>
        /\ \A k \in 1..Len(game_paths) :
              \E m \in 1..Len(listing) :
                  game_paths[k] = <<SRC, listing[m]>> /\ IsGameDir(listing[m])
        /\ \A n \in ChildNames(fs0, <<SRC>>) :
              IsGameDir(n) =>
                  Cardinality({k \in 1..Len(game_paths) : game_paths[k] = <<SRC, n>>}) = 1
        /\ \A k1, k2 \in 1..Len(game_paths) :
              k1 < k2 =>
                  \E m1, m2 \in 1..Len(listing) :
                      /\ m1 < m2
                      /\ game_paths[k1] = <<SRC, listing[m1]>>
                      /\ game_paths[k2] = <<SRC, listing[m2]>>
        /\ ChildNames(fs0, <<SRC>>) = {n_x_game, n_GAME2, n_noise} =>
              {game_paths[k] : k \in 1..Len(game_paths)} = {<<SRC, n_x_game>>, <<SRC, n_GAME2>>}
        /\ ~os_path_exists(fs0, <<SRC>>) => game_paths = <<>> /\ exc.where # "walk"

C6_Witness ==
    /\ pc = "names"
    /\ listing = <<n_noise, n_GAME2, n_x_game>>
    /\ game_paths = <<<<SRC, n_GAME2>>, <<SRC, n_x_game>>>>

\* C7: two calls of copy_and_overwrite(source, dest) leave dest as one call
\* does, and in both cases dest holds exactly the tree of source: what dest
\* held before is gone. A second call never fails after a first that returned.
C7_CopyIdempotent ==
    /\ pc \in {"copy_call2", "copy_returned"} => Subtree(fs, dest_path) = Subtree(fs0, src)
    /\ pc = "raised" => i = 2

C7_Witness ==
    /\ pc = "copy_returned"
    /\ dest_path = <<OUT, n_a>>
    /\ os_path_exists(fs0, <<OUT, n_a, n_old>>)
    /\ src = <<SRC, n_x_game>>

\* C8: with a number of arguments other than two the script ends in the usage
\* error before main is called and the filesystem is as it was: no target
\* directory, nothing copied or removed, no metadata.json written.
C8_UsageError ==
    argc # ExpectedArgs =>
        /\ pc \in {"start", "raised"}
        /\ pc = "raised" => exc = Exc("Exception", "__main__")
        /\ fs = fs0
        /\ json_doc = NoDoc
        /\ events = <<>>

C8_Witness ==
    argc = ExpectedArgs + 1 /\ pc = "raised"

\* The j-th thing a run over n discovered directories completes.
ExpectedEvent(j, n) ==
    IF j = 1 THEN Ev("target_ensured", 0)
    ELSE IF j = 3 * n + 2 THEN Ev("metadata", 0)
    ELSE LET k == ((j - 2) \div 3) + 1
             r == (j - 2) % 3
         IN Ev(CASE r = 0 -> "copied" [] r = 1 -> "build_started" [] OTHER -> "build_ended", k)

\* C9: the target directory is ensured first; the copy of the i-th directory
\* completes before its build attempt starts, which completes before the copy
\* of the next; metadata.json is written after all of them, once, and a run
\* that completes has written it.
C9_Order ==
    /\ Len(events) <= 3 * Len(game_paths) + 2
    /\ \A j \in 1..Len(events) : events[j] = ExpectedEvent(j, Len(game_paths))
    /\ pc = "done" => Len(events) = 3 * Len(game_paths) + 2
    /\ pc = "running" => events[Len(events)] = Ev("build_started", i)

C9_Witness ==
    /\ pc = "done"
    /\ Len(game_paths) = 3
    /\ outcome = "exit_nonzero"

\* C10: when a run completes, the target holds for every discovered directory
\* a subdirectory named by its derived name with the files of that directory.
C10_AllOutputsKept ==
    pc = "done" =>
        \A k \in 1..Len(game_paths) :
            LET d == os_path_join(target_path, new_game_dirs[k])
            IN /\ os_path_isdir(fs, d)
               /\ \A r \in DOMAIN Subtree(fs0, game_paths[k]) :
                     /\ os_path_exists(fs, d \o r)
                     /\ fs[d \o r] = fs0[game_paths[k] \o r]
=============================================================================
